---- MODULE Spec2Model ----
(***************************************************************************)
(* Model of the data-fetching and caching layer of finance-viz-platform:   *)
(* TWStockDataFetcher.fetch_statement and DataLoader.load_company_data     *)
(* (src/finance_analyzer/data/loader.py).                                  *)
(*                                                                         *)
(* Text is a sequence of character codes: 0..9 are the digits, DOT is '.'  *)
(* and ALPHA stands for any non-numeric character.  A cell of a table is a *)
(* record [t, v]: t is the pandas dtype of the cell ("str", "int",         *)
(* "float") and v the canonical text of its value (an int without leading *)
(* zeros, a float as repr() prints it).                                    *)
(***************************************************************************)
EXTENDS Integers, Sequences, FiniteSets, TLC

----------------------------------------------------------------------------
(* Text and cells *)

DOT == 10
ALPHA == 11

IsDigit(c) == c \in 0..9

AllDigits(s) == \A i \in 1..Len(s) : IsDigit(s[i])

\* what int("0050") keeps of the text: the digits without leading zeros
RECURSIVE StripLeadingZeros(_)
StripLeadingZeros(s) ==
    IF Len(s) > 1 /\ s[1] = 0 THEN StripLeadingZeros(Tail(s)) ELSE s

\* what repr(float) keeps of a fraction: no trailing zeros, at least one digit
RECURSIVE StripTrailingZeros(_)
StripTrailingZeros(s) ==
    IF Len(s) > 1 /\ s[Len(s)] = 0
    THEN StripTrailingZeros(SubSeq(s, 1, Len(s) - 1))
    ELSE s

DotPos(s) == CHOOSE i \in 1..Len(s) : s[i] = DOT

\* the text parses as an integer (the C parser of read_csv)
IsIntText(s) == Len(s) > 0 /\ AllDigits(s)

\* the text parses as a decimal number with a fraction part
IsFloatText(s) ==
    /\ \E i \in 1..Len(s) : s[i] = DOT
    /\ LET p == DotPos(s)
       IN  /\ p > 1 /\ p < Len(s)
           /\ AllDigits(SubSeq(s, 1, p - 1))
           /\ AllDigits(SubSeq(s, p + 1, Len(s)))

IntText(s) == StripLeadingZeros(s)

FloatText(s) ==
    IF IsIntText(s) THEN StripLeadingZeros(s) \o <<DOT, 0>>
    ELSE LET p == DotPos(s)
         IN  StripLeadingZeros(SubSeq(s, 1, p - 1)) \o <<DOT>>
                 \o StripTrailingZeros(SubSeq(s, p + 1, Len(s)))

RECURSIVE NatText(_)
NatText(n) == IF n < 10 THEN <<n>> ELSE Append(NatText(n \div 10), n % 10)

StrCell(s) == [t |-> "str", v |-> s]
IntCell(s) == [t |-> "int", v |-> IntText(s)]
FloatCell(s) == [t |-> "float", v |-> FloatText(s)]

\* Series.astype(str) / Index.astype(str) on one cell
AsTypeStr(c) == [t |-> "str", v |-> c.v]

----------------------------------------------------------------------------
(* Tables (pandas.DataFrame) and files (CSV text) *)

NoFrame == [idxname |-> "", index |-> <<>>, columns |-> <<>>, data |-> <<>>]

Column(df, k) == [i \in 1..Len(df.index) |-> df.data[i][k]]

ColPos(df, name) == CHOOSE k \in 1..Len(df.columns) : df.columns[k] = name

HasColumn(df, name) == \E k \in 1..Len(df.columns) : df.columns[k] = name

RemoveAt(s, k) == SubSeq(s, 1, k - 1) \o SubSeq(s, k + 1, Len(s))

\* DataFrame.empty
IsEmpty(df) == Len(df.index) = 0 \/ Len(df.columns) = 0

\* DataFrame.set_index(name); ok = FALSE is the KeyError
SetIndex(df, name) ==
    IF ~HasColumn(df, name) THEN [ok |-> FALSE, df |-> NoFrame]
    ELSE LET k == ColPos(df, name)
         IN  [ok |-> TRUE,
              df |-> [idxname |-> name,
                      index   |-> Column(df, k),
                      columns |-> RemoveAt(df.columns, k),
                      data    |-> [i \in 1..Len(df.index) |-> RemoveAt(df.data[i], k)]]]

\* df[name] = df[name].astype(str); ok = FALSE is the KeyError
ColumnAsStr(df, name) ==
    IF ~HasColumn(df, name) THEN [ok |-> FALSE, df |-> NoFrame]
    ELSE LET k == ColPos(df, name)
         IN  [ok |-> TRUE,
              df |-> [df EXCEPT !.data =
                         [i \in 1..Len(df.index) |->
                             [df.data[i] EXCEPT ![k] = AsTypeStr(df.data[i][k])]]]]

\* df.index = df.index.astype(str)
IndexAsStr(df) == [df EXCEPT !.index = [i \in 1..Len(df.index) |-> AsTypeStr(df.index[i])]]

column_mapping(name) ==
    CASE name = "SecuritiesCompanyCode" -> "Code"
      [] name = "CompanyName"           -> "Name"
      [] name = "PriceEarningRatio"     -> "PEratio"
      [] name = "DividendPerShare"      -> "DividendYield"
      [] name = "YieldRatio"            -> "YieldRatio"
      [] name = "PriceBookRatio"        -> "PBratio"
      [] OTHER                          -> name

\* DataFrame.rename(columns=column_mapping): the column labels only
Rename(df) ==
    [df EXCEPT !.columns = [k \in 1..Len(df.columns) |-> column_mapping(df.columns[k])]]

NoFile == [exists |-> FALSE, header |-> <<>>, rows |-> <<>>]

\* DataFrame.to_csv(path): the index is the first column, under its name
ToCsv(df) ==
    [exists |-> TRUE,
     header |-> <<df.idxname>> \o df.columns,
     rows   |-> [i \in 1..Len(df.index) |->
                    <<df.index[i].v>> \o [k \in 1..Len(df.columns) |-> df.data[i][k].v]]]

\* a save that leaves a file that is already there as it is
SaveIfAbsent(file, df) == IF file.exists THEN file ELSE ToCsv(df)

\* df.to_csv(csv_path): the path is opened for writing, so whatever file was
\* there is replaced
Save(file, df) == ToCsv(df)

Unnamed(k) == <<"Unnamed: 0", "Unnamed: 1", "Unnamed: 2", "Unnamed: 3">>[k]

\* the dtype read_csv infers for a column from its texts
InferType(texts) ==
    IF \A i \in 1..Len(texts) : IsIntText(texts[i]) THEN "int"
    ELSE IF \A i \in 1..Len(texts) : IsIntText(texts[i]) \/ IsFloatText(texts[i])
         THEN "float"
         ELSE "str"

ParseCell(type, s) ==
    CASE type = "int"   -> IntCell(s)
      [] type = "float" -> FloatCell(s)
      [] OTHER          -> StrCell(s)

\* pandas.read_csv(path); ok = FALSE is EmptyDataError (a file without header)
ReadCsv(file) ==
    IF Len(file.header) = 0 THEN [ok |-> FALSE, df |-> NoFrame]
    ELSE LET n == Len(file.rows)
             m == Len(file.header)
             texts(k) == [i \in 1..n |-> file.rows[i][k]]
         IN  [ok |-> TRUE,
              df |-> [idxname |-> "",
                      index   |-> [i \in 1..n |-> [t |-> "int", v |-> NatText(i - 1)]],
                      columns |-> [k \in 1..m |->
                                     IF file.header[k] = "" THEN Unnamed(k)
                                     ELSE file.header[k]],
                      data    |-> [i \in 1..n |->
                                     [k \in 1..m |->
                                        ParseCell(InferType(texts(k)), file.rows[i][k])]]]]

\* pandas.DataFrame(data) for a JSON list of records with the same keys
FrameOf(payload) ==
    [idxname |-> "",
     index   |-> [i \in 1..Len(payload.rows) |-> [t |-> "int", v |-> NatText(i - 1)]],
     columns |-> payload.keys,
     data    |-> payload.rows]

----------------------------------------------------------------------------
(* Config and the two paths of fetch_statement that build the returned table *)

Markets == {"twse", "tpex"}

\* the keys of Config.API_ENDPOINTS[market]
TableTypes(market) == {"is", "bs"}

\* Config.API_ENDPOINTS[market][table_type]
API_ENDPOINTS(market, table_type) ==
    IF market = "twse" THEN "/exchangeReport/BWIBBU_d"
    ELSE "/tpex_mainboard_peratio_analysis"

DEFAULT_RETRY_COUNT == 3
DEFAULT_SLEEP_TIME == 2

\* a cache path that leaves the date out of the file name
CsvPathNoDate(market, table_type, current_date) == <<market, table_type, 0>>

\* a cache path that does not tell the statements apart
CsvPathNoTable(market, table_type, current_date) == <<market, "is", current_date>>

\* Config.RAW_DIR / f"{market}_{table_type}_{current_date}.csv"
CsvPath(market, table_type, current_date) == <<market, table_type, current_date>>

\* the name of the column that carries the company code
CodeColumn(market) == IF market = "twse" THEN "Code" ELSE "SecuritiesCompanyCode"

\* a cache branch that never manages to read the file
LoadCachedFails(market, file) == [kind |-> "error", df |-> NoFrame]

\* the cache branch: kind is "hit" (the table is returned), "empty" (the cached
\* table is empty) or "error" (an exception, caught and logged)
LoadCached(market, file) ==
    LET r == ReadCsv(file)
    IN  IF ~r.ok THEN [kind |-> "error", df |-> NoFrame]
        ELSE IF IsEmpty(r.df) THEN [kind |-> "empty", df |-> NoFrame]
        ELSE LET s == SetIndex(r.df, CodeColumn(market))
             IN  IF ~s.ok THEN [kind |-> "error", df |-> NoFrame]
                 ELSE IF market = "twse" THEN [kind |-> "hit", df |-> s.df]
                 ELSE [kind |-> "hit", df |-> IndexAsStr(Rename(s.df))]

\* the remote branch on a non-empty JSON payload; ok = FALSE is the KeyError
\* that the loop's "except Exception" catches
BuildFrame(market, payload) ==
    LET c == ColumnAsStr(FrameOf(payload), CodeColumn(market))
    IN  IF ~c.ok THEN [ok |-> FALSE, df |-> NoFrame]
        ELSE LET s == SetIndex(c.df, CodeColumn(market))
             IN  IF market = "twse" THEN s ELSE [ok |-> TRUE, df |-> Rename(s.df)]

----------------------------------------------------------------------------
(* The environment: the remote endpoints, the calendar and the cache folder *)

MaxRetry == 2
MaxDay == 2
MaxCalls == 2

Days == 1..MaxDay
BaseDelays == {1, 2}

\* arguments a caller may pass, valid or not
MarketArgs == Markets \cup {"invalid"}
TableArgs == {"is", "bs", "invalid"}

\* JSON payloads an endpoint may answer with (every value is a JSON string)
TwsePayload ==
    [keys |-> <<"Code", "Name", "PEratio">>,
     rows |-> << <<StrCell(<<2,7,2,7>>), StrCell(<<ALPHA>>), StrCell(<<2,5,DOT,8,0>>)>>,
                 <<StrCell(<<2,7,2,9>>), StrCell(<<ALPHA>>), StrCell(<<2,8,DOT,5,0>>)>> >>]

TwsePartial ==
    [keys |-> <<"Code", "Name", "PEratio">>,
     rows |-> << <<StrCell(<<2,7,2,9>>), StrCell(<<ALPHA>>), StrCell(<<2,8,DOT,5,0>>)>> >>]

TpexPayload ==
    [keys |-> <<"SecuritiesCompanyCode", "CompanyName", "PriceEarningRatio">>,
     rows |-> << <<StrCell(<<1,2,5,9>>), StrCell(<<ALPHA>>), StrCell(<<1,2,DOT,0,5>>)>>,
                 <<StrCell(<<1,2,6,8>>), StrCell(<<ALPHA>>), StrCell(<<3,0>>)>> >>]

Payloads == {TwsePayload, TwsePartial, TpexPayload}

\* how one attempt can fail before a table is built
FailureKinds == {"transport", "status", "empty", "unparsable"}

\* files found in the cache folder that fetch_statement did not write: a frame
\* saved by DataFrame.to_csv with an unnamed index, a zero-byte file and a
\* file that holds a header line only
PlainCsv ==
    [exists |-> TRUE,
     header |-> <<"", "PEratio", "DividendYield", "PBratio">>,
     rows   |-> << <<(<<2,7,2,7>>), (<<2,5,DOT,8>>), (<<2,DOT,3,4>>), (<<3,DOT,4,5>>)>> >>]

ZeroByteFile == [exists |-> TRUE, header |-> <<>>, rows |-> <<>>]

HeaderOnlyFile == [exists |-> TRUE, header |-> <<"Code", "PEratio">>, rows |-> <<>>]

ForeignFiles == {PlainCsv, ZeroByteFile, HeaderOnlyFile}

\* the file an earlier run of the program left after a successful fetch
EarlierRunFile(market) ==
    ToCsv(BuildFrame(market, IF market = "twse" THEN TwsePayload ELSE TpexPayload).df)

Paths == Markets \X {"is", "bs"} \X (0..MaxDay)

----------------------------------------------------------------------------
(* State *)

VARIABLES
    day,        \* the calendar day (datetime.now())
    cache,      \* Config.RAW_DIR: path -> file
    origin,     \* per path, who wrote the file and when
    pc,         \* position of fetch_statement: idle, cache, loop, done
    args,       \* the arguments of the running call, and its current_date
    attempt,    \* the loop variable of the retry loop
    gets,       \* session.get calls issued by the running call
    sleeps,     \* the time.sleep arguments of the running call, in order
    outcome,    \* what the last attempt of the running call ended with
    received,   \* the JSON payload the last attempt of the running call got
    non200,     \* attempts of the running call answered with a status other than 200
    reads,      \* cache paths the running call has read
    writes,     \* cache paths the running call has written
    found,      \* what the cache branch of the running call met: absent, hit, empty, error
    warned,     \* the running call logged "Failed to load cached data"
    result,     \* what the call returned or raised
    prev,       \* the call before the running one
    calls,      \* number of calls made so far
    lpc,        \* position of load_company_data: idle, is, bs, done
    company,    \* its stock_code
    is_df,      \* its is_df
    lresult,    \* what it returned
    fetches,    \* fetch_statement calls it has made
    rpc,        \* a second process in fetch_statement: its position
    rargs,      \* its arguments and its current_date
    rattempt,   \* its loop variable
    rgets,      \* the session.get calls it has issued
    rfound,     \* what its cache branch met
    rwrites,    \* cache paths it has written
    rresult,    \* what its call returned or raised
    registry,   \* DataLoader.COMPANIES, the class attribute
    legacy,     \* modules/data_loader.py: the state of its fetch_statement and its files
    roe,        \* FinancialIndicators.calculate_roe: its last call
    appconfig,  \* finance_analyzer/config.py: DEFAULT_CONFIG, the instance, its last call
    dashboard,  \* app/app.py: the widgets of FinancialAnalysisApp.run and its table
    trend       \* analysis/insights.py: the last call of _determine_overall_trend

vars == <<day, cache, origin, pc, args, attempt, gets, sleeps, outcome, received, non200, reads,
          writes, found, warned, result, prev, calls, lpc, company, is_df, lresult, fetches,
          rpc, rargs, rattempt, rgets, rfound, rwrites, rresult, registry, legacy, roe,
          appconfig, dashboard, trend>>

fetchVars == <<pc, args, attempt, gets, sleeps, outcome, received, non200, reads, writes,
               found, warned, result, prev>>

loadVars == <<lpc, company, is_df, lresult, fetches>>

rivalVars == <<rpc, rargs, rattempt, rgets, rfound, rwrites, rresult>>

\* the state of the other parts of the program, which the steps of one part
\* leave alone
\* what no step of finance_analyzer/data/loader.py touches
appVars == <<appconfig, dashboard, trend>>

restVars == <<registry, legacy, roe, appVars>>

otherVars == <<rivalVars, restVars>>

NoArgs == [market |-> "", table_type |-> "", retry |-> 0, sleep_time |-> 0, date |-> 0]

NoPage == [html |-> FALSE, lxml |-> 0, bs4 |-> 0, blocked |-> FALSE]

\* modules/data_loader.py before its first call, with no file saved
NoLegacy ==
    [pc |-> "idle", table |-> "", year |-> 0, season |-> 0, retry |-> 0, i |-> 0,
     posts |-> 0, slept |-> 0, page |-> NoPage, parsers |-> <<>>, last |-> "none",
     status |-> "none", source |-> "none", tables |-> 0, files |-> {}, calls |-> 0]

\* calculate_roe before its first call
NoRoe == [called |-> FALSE, balance_sheet |-> [columns |-> {}, equity |-> <<>>],
          income_statement |-> [columns |-> {}, net_income |-> <<>>],
          status |-> "none", values |-> <<>>]

NoPayload == [keys |-> <<>>, rows |-> <<>>]

NoResult == [status |-> "none", source |-> "none", df |-> NoFrame]

NoOrigin == [by |-> "none", market |-> "", table_type |-> "", day |-> 0]

NoPrev == [market |-> "", table_type |-> "", date |-> 0, result |-> NoResult, gets |-> 0]

NoRecord == [status |-> "none", code |-> <<>>, columns |-> <<>>, income |-> <<>>,
             balance |-> <<>>, fetch_time |-> 0, market |-> ""]

\* DataLoader.COMPANIES: code and market of each entry
COMPANIES ==
    << [code |-> <<2,7,2,7>>, market |-> "twse"],
       [code |-> <<2,7,2,9>>, market |-> "twse"],
       [code |-> <<2,7,5,3>>, market |-> "twse"],
       [code |-> <<1,2,5,9>>, market |-> "tpex"],
       [code |-> <<1,2,6,8>>, market |-> "tpex"],
       [code |-> <<7,7,0,8>>, market |-> "tpex"],
       [code |-> <<7,7,0,5>>, market |-> "twse"],
       [code |-> <<2,7,5,2>>, market |-> "tpex"],
       [code |-> <<4,4,1,9>>, market |-> "tpex"] >>

----------------------------------------------------------------------------
(* finance_analyzer/config.py: AppConfig.  A dict of settings is a function *)
(* from its keys to integers.  A value of the top-level dict is a record    *)
(* [kind, dict, v]: a dict of its own, a scalar v, or "default", the very   *)
(* dict object that DEFAULT_CONFIG holds under the same key.                *)

EmptyDict == [k \in {} |-> 0]

DictValue(d) == [kind |-> "dict", dict |-> d, v |-> 0]

Scalar(n) == [kind |-> "value", dict |-> EmptyDict, v |-> n]

DefaultSection == [kind |-> "default", dict |-> EmptyDict, v |-> 0]

\* AppConfig.DEFAULT_CONFIG, of which the model keeps the sections of integer
\* settings: "api" (timeout, retry_count) and "display" (chart_width,
\* chart_height)
DEFAULT_CONFIG ==
    [section \in {"api", "display"} |->
        IF section = "api"
        THEN [k \in {"timeout", "retry_count"} |-> IF k = "timeout" THEN 30 ELSE 3]
        ELSE [k \in {"chart_width", "chart_height"} |-> IF k = "chart_width" THEN 10 ELSE 6]]

\* line 58, a copy that is one level deep: a new top-level dict whose values
\* are the dict objects of DEFAULT_CONFIG themselves
ShallowCopy(defaults) == [section \in DOMAIN defaults |-> DefaultSection]

\* what self.config holds, the shared dicts read through
Contents(defaults, config) ==
    [section \in DOMAIN config |->
        IF config[section].kind = "default" THEN DictValue(defaults[section])
        ELSE config[section]]

ReturnedNone == [kind |-> "None", v |-> 0]

ReturnedBool(b) == [kind |-> "bool", v |-> IF b THEN 1 ELSE 0]

ReturnedInt(n) == [kind |-> "int", v |-> n]

\* the module after import: DEFAULT_CONFIG as written and the singleton of
\* line 241, config = AppConfig()
NoAppConfig ==
    [defaults |-> DEFAULT_CONFIG, config |-> ShallowCopy(DEFAULT_CONFIG), op |-> "init",
     section |-> "", key |-> "", value |-> ReturnedNone, file |-> "",
     returned |-> ReturnedNone, raised |-> "none",
     before |-> Contents(DEFAULT_CONFIG, ShallowCopy(DEFAULT_CONFIG)), ops |-> 0]

\* app/app.py before the first run of the script
NoDashboard ==
    [pc |-> "idle", selected_companies |-> {}, years_range |-> 0, selected_metric |-> "",
     company_for_detail |-> "", selected_year |-> <<>>, prev_year |-> <<>>,
     status |-> "none", rows |-> <<>>]

\* _determine_overall_trend before its first call
NoTrend == [called |-> FALSE, current |-> EmptyDict, previous |-> EmptyDict, message |-> ""]

Init ==
    /\ day = 1
    /\ cache = [p \in Paths |-> NoFile]
    /\ origin = [p \in Paths |-> NoOrigin]
    /\ pc = "idle"
    /\ args = NoArgs
    /\ attempt = 0
    /\ gets = 0
    /\ sleeps = <<>>
    /\ outcome = "none"
    /\ received = NoPayload
    /\ non200 = 0
    /\ reads = {}
    /\ writes = {}
    /\ found = "none"
    /\ warned = FALSE
    /\ result = NoResult
    /\ prev = NoPrev
    /\ calls = 0
    /\ lpc = "idle"
    /\ company = <<>>
    /\ is_df = NoFrame
    /\ lresult = NoRecord
    /\ fetches = 0
    /\ rpc = "idle"
    /\ rargs = NoArgs
    /\ rattempt = 0
    /\ rgets = 0
    /\ rfound = "none"
    /\ rwrites = {}
    /\ rresult = NoResult
    /\ registry = COMPANIES
    /\ legacy = NoLegacy
    /\ roe = NoRoe
    /\ appconfig = NoAppConfig
    /\ dashboard = NoDashboard
    /\ trend = NoTrend

----------------------------------------------------------------------------
(* fetch_statement *)

\* a validation that forgets the table type
ValidArgsMarketOnly(market, table_type) == market \in Markets

\* lines 105-108: both arguments are keys of Config.API_ENDPOINTS
ValidArgs(market, table_type) == market \in Markets /\ table_type \in TableTypes(market)

\* lines 104-112: validation, then the cache path of today
Enter(table_type, market, retry, sleep_time) ==
    /\ prev' = [market |-> args.market, table_type |-> args.table_type, date |-> args.date,
                result |-> result, gets |-> gets]
    /\ args' = [market |-> market, table_type |-> table_type, retry |-> retry,
                sleep_time |-> sleep_time, date |-> day]
    /\ attempt' = 0
    /\ gets' = 0
    /\ sleeps' = <<>>
    /\ outcome' = "none"
    /\ received' = NoPayload
    /\ non200' = 0
    /\ reads' = {}
    /\ writes' = {}
    /\ found' = "none"
    /\ warned' = FALSE
    /\ IF ValidArgs(market, table_type)
       THEN pc' = "cache" /\ result' = NoResult
       ELSE pc' = "done" /\ result' = [NoResult EXCEPT !.status = "ValueError"]

MyPath == CsvPath(args.market, args.table_type, args.date)

\* a direct call of fetch_statement
Call ==
    /\ pc \in {"idle", "done"}
    /\ lpc = "idle"
    /\ calls < MaxCalls
    /\ calls' = calls + 1
    /\ \E market \in MarketArgs, table_type \in TableArgs,
          retry \in 0..MaxRetry, sleep_time \in BaseDelays :
            Enter(table_type, market, retry, sleep_time)
    /\ UNCHANGED <<day, cache, origin, loadVars, otherVars>>

\* a cache branch whose exception reaches the caller
FallThroughRaises(kind) ==
    /\ warned' = FALSE
    /\ IF kind = "error"
       THEN pc' = "done" /\ result' = [NoResult EXCEPT !.status = "Exception"]
       ELSE pc' = "loop" /\ UNCHANGED result

\* lines 119 and 138-139: an empty cached table is skipped, an exception of
\* the cache branch is logged; both go on to the retry loop
FallThrough(kind) ==
    /\ warned' = (kind = "error")
    /\ pc' = "loop"
    /\ UNCHANGED result

\* lines 114-139: the cached file of today, when there is one
CacheCheck ==
    /\ pc = "cache"
    /\ IF cache[MyPath].exists
       THEN LET c == LoadCached(args.market, cache[MyPath])
            IN  /\ reads' = reads \cup {MyPath}
                /\ found' = c.kind
                /\ IF c.kind = "hit"
                   THEN /\ pc' = "done"
                        /\ warned' = FALSE
                        /\ result' = [status |-> "returned", source |-> "cache", df |-> c.df]
                   ELSE FallThrough(c.kind)
       ELSE /\ pc' = "loop"
            /\ found' = "absent"
            /\ UNCHANGED <<reads, warned, result>>
    /\ UNCHANGED <<day, cache, origin, args, attempt, gets, sleeps, outcome, received,
                   non200, writes, prev, calls, loadVars, otherVars>>

\* a failed attempt that the loop does not count
BackoffUncounted(kind) ==
    /\ outcome' = kind
    /\ non200' = IF kind = "status" THEN non200 + 1 ELSE non200
    /\ sleeps' = <<args.sleep_time>>
    /\ UNCHANGED <<attempt, pc, result, cache, origin, writes>>

\* a backoff that sleeps the base delay after every attempt
BackoffFlat(kind) ==
    /\ outcome' = kind
    /\ non200' = IF kind = "status" THEN non200 + 1 ELSE non200
    /\ sleeps' = Append(sleeps, args.sleep_time)
    /\ attempt' = attempt + 1
    /\ UNCHANGED <<pc, result, cache, origin, writes>>

\* an attempt that gives up with an empty table when the payload is empty
BackoffAborts(kind) ==
    /\ outcome' = kind
    /\ non200' = IF kind = "status" THEN non200 + 1 ELSE non200
    /\ IF kind = "empty"
       THEN /\ pc' = "done"
            /\ result' = [status |-> "returned", source |-> "remote", df |-> NoFrame]
            /\ UNCHANGED <<sleeps, attempt>>
       ELSE /\ sleeps' = Append(sleeps, args.sleep_time * (attempt + 1))
            /\ attempt' = attempt + 1
            /\ UNCHANGED <<pc, result>>
    /\ UNCHANGED <<cache, origin, writes>>

\* a failed attempt: time.sleep(sleep_time * (attempt + 1)); continue
Backoff(kind) ==
    /\ outcome' = kind
    /\ non200' = IF kind = "status" THEN non200 + 1 ELSE non200
    /\ sleeps' = Append(sleeps, args.sleep_time * (attempt + 1))
    /\ attempt' = attempt + 1
    /\ UNCHANGED <<pc, result, cache, origin, writes>>

\* lines 146-203: one attempt that fails before a payload is there
AttemptFails ==
    /\ pc = "loop"
    /\ attempt < args.retry
    /\ gets' = gets + 1
    /\ received' = NoPayload
    /\ \E kind \in FailureKinds : Backoff(kind)
    /\ UNCHANGED <<day, args, reads, found, warned, prev, calls, loadVars, otherVars>>

\* lines 146-203: one attempt that receives a non-empty JSON payload
AttemptPayload ==
    /\ pc = "loop"
    /\ attempt < args.retry
    /\ gets' = gets + 1
    /\ \E payload \in Payloads :
         LET b == BuildFrame(args.market, payload)
         IN  /\ received' = payload
             /\ IF b.ok
                THEN /\ cache' = [cache EXCEPT ![MyPath] = Save(cache[MyPath], b.df)]
                     /\ origin' = [origin EXCEPT ![MyPath] =
                                     [by |-> "fetch", market |-> args.market,
                                      table_type |-> args.table_type, day |-> day]]
                     /\ writes' = writes \cup {MyPath}
                     /\ outcome' = "ok"
                     /\ result' = [status |-> "returned", source |-> "remote", df |-> b.df]
                     /\ pc' = "done"
                     /\ UNCHANGED <<sleeps, attempt, non200>>
                ELSE Backoff("unexpected")
    /\ UNCHANGED <<day, args, reads, found, warned, prev, calls, loadVars, otherVars>>

\* an exhausted loop that saves an empty table before it raises
ExhaustedSavesEmpty ==
    /\ pc = "loop"
    /\ attempt >= args.retry
    /\ pc' = "done"
    /\ result' = [NoResult EXCEPT !.status = "RuntimeError"]
    /\ cache' = [cache EXCEPT ![MyPath] = ToCsv(NoFrame)]
    /\ UNCHANGED <<day, origin, args, attempt, gets, sleeps, outcome, received,
                   non200, reads, writes, found, warned, prev, calls, loadVars, otherVars>>

\* lines 205-208: all attempts failed
Exhausted ==
    /\ pc = "loop"
    /\ attempt >= args.retry
    /\ pc' = "done"
    /\ result' = [NoResult EXCEPT !.status = "RuntimeError"]
    /\ UNCHANGED <<day, cache, origin, args, attempt, gets, sleeps, outcome, received,
                   non200, reads, writes, found, warned, prev, calls, loadVars, otherVars>>

----------------------------------------------------------------------------
(* The environment's steps *)

\* midnight.  A call reads the date once (line 111), so a midnight inside a
\* call leaves what a midnight right after the call leaves.
Tick ==
    /\ pc \in {"idle", "done"}
    /\ lpc \in {"idle", "done"}
    /\ day < MaxDay
    /\ day' = day + 1
    /\ UNCHANGED <<cache, origin, fetchVars, calls, loadVars, otherVars>>

\* a file that is in the cache folder before the program's first call, under
\* the name of that day's cache entry
Seed ==
    /\ calls = 0
    /\ \A p \in Paths : origin[p].by # "seed"
    /\ \E market \in Markets, table_type \in {"is", "bs"} :
       \E file \in ForeignFiles \cup {EarlierRunFile(market)} :
         LET p == CsvPath(market, table_type, day)
         IN  /\ ~cache[p].exists
             /\ cache' = [cache EXCEPT ![p] = file]
             /\ origin' = [origin EXCEPT ![p] =
                             [by |-> "seed", market |-> market,
                              table_type |-> table_type, day |-> day]]
    /\ UNCHANGED <<day, fetchVars, calls, loadVars, otherVars>>

----------------------------------------------------------------------------
(* DataLoader.load_company_data, the function under the st.cache_data      *)
(* decorator: a memoised repeat of an identifier does not run it, so the   *)
(* steps below are those of a call that does run.                          *)


\* identifiers a caller may pass, as the tokens company.split() yields: three
\* registry entries, the unknown code 9999 and the empty string
Identifiers ==
    { <<(<<2,7,2,7>>), (<<ALPHA>>)>>, <<(<<2,7,2,9>>), (<<ALPHA>>)>>,
      <<(<<1,2,5,9>>), (<<ALPHA>>)>>, <<(<<9,9,9,9>>), (<<ALPHA>>)>>, << >> }

InRegistry(code) == \E k \in 1..Len(registry) : registry[k].code = code

\* next((c for c in COMPANIES if c["code"] == stock_code), None)
CompanyInfo(code) == registry[CHOOSE k \in 1..Len(registry) : registry[k].code = code]

\* stock_code in df.index: the label is looked up as the string it is
InIndex(code, df) == \E i \in 1..Len(df.index) : df.index[i] = StrCell(code)

RowOf(code, df) == CHOOSE i \in 1..Len(df.index) : df.index[i] = StrCell(code)

Upper(market) == IF market = "twse" THEN "TWSE" ELSE "TPEX"

\* a combination that is content with the company's row in one of the tables
CombineEither(code, market, income, balance, now) ==
    IF InIndex(code, income) \/ InIndex(code, balance)
    THEN [status     |-> "record",
          code       |-> code,
          columns    |-> income.columns \o balance.columns \o <<"fetch_time", "market">>,
          income     |-> IF InIndex(code, income)
                         THEN income.data[RowOf(code, income)] ELSE <<>>,
          balance    |-> IF InIndex(code, balance)
                         THEN balance.data[RowOf(code, balance)] ELSE <<>>,
          fetch_time |-> now,
          market     |-> Upper(market)]
    ELSE [NoRecord EXCEPT !.status = "None"]

\* lines 279-288: pd.concat of the company's row of each table (tables whose
\* index holds a code once), then the fetch_time and market columns
Combine(code, market, income, balance, now) ==
    IF InIndex(code, income) /\ InIndex(code, balance)
    THEN [status     |-> "record",
          code       |-> code,
          columns    |-> income.columns \o balance.columns \o <<"fetch_time", "market">>,
          income     |-> income.data[RowOf(code, income)],
          balance    |-> balance.data[RowOf(code, balance)],
          fetch_time |-> now,
          market     |-> Upper(market)]
    ELSE [NoRecord EXCEPT !.status = "None"]

ReturnsNone == [NoRecord EXCEPT !.status = "None"]

\* lines 260-276: resolve the identifier, then fetch the income statement
LoadCompany ==
    /\ pc \in {"idle", "done"}
    /\ lpc \in {"idle", "done"}
    /\ calls < MaxCalls
    /\ calls' = calls + 1
    /\ is_df' = NoFrame
    /\ \E ident \in Identifiers :
         IF Len(ident) = 0 \/ ~InRegistry(ident[1])
         THEN /\ lpc' = "done"
              /\ lresult' = ReturnsNone
              /\ company' = IF Len(ident) = 0 THEN << >> ELSE ident[1]
              /\ fetches' = 0
              /\ UNCHANGED fetchVars
         ELSE /\ lpc' = "is"
              /\ lresult' = NoRecord
              /\ company' = ident[1]
              /\ fetches' = 1
              /\ Enter("is", CompanyInfo(ident[1]).market,
                       DEFAULT_RETRY_COUNT, DEFAULT_SLEEP_TIME)
    /\ UNCHANGED <<day, cache, origin, otherVars>>

\* an income statement step that fetches the balance sheet whatever happened
AfterIncomeGoesOn ==
    /\ lpc = "is"
    /\ pc = "done"
    /\ is_df' = result.df
    /\ lpc' = "bs"
    /\ fetches' = fetches + 1
    /\ Enter("bs", CompanyInfo(company).market, DEFAULT_RETRY_COUNT, DEFAULT_SLEEP_TIME)
    /\ UNCHANGED <<lresult, day, cache, origin, calls, company, otherVars>>

\* line 276 returned or raised: fetch the balance sheet, or give up
AfterIncome ==
    /\ lpc = "is"
    /\ pc = "done"
    /\ IF result.status = "returned"
       THEN /\ is_df' = result.df
            /\ lpc' = "bs"
            /\ fetches' = fetches + 1
            /\ Enter("bs", CompanyInfo(company).market,
                     DEFAULT_RETRY_COUNT, DEFAULT_SLEEP_TIME)
            /\ UNCHANGED lresult
       ELSE /\ lpc' = "done"
            /\ lresult' = ReturnsNone
            /\ UNCHANGED <<is_df, fetches, fetchVars>>
    /\ UNCHANGED <<day, cache, origin, calls, company, otherVars>>

\* line 277 returned or raised: combine, or give up
AfterBalance ==
    /\ lpc = "bs"
    /\ pc = "done"
    /\ lpc' = "done"
    /\ lresult' = IF result.status = "returned"
                  THEN Combine(company, CompanyInfo(company).market, is_df, result.df, day)
                  ELSE ReturnsNone
    /\ UNCHANGED <<day, cache, origin, calls, company, is_df, fetches, fetchVars, otherVars>>

----------------------------------------------------------------------------
(* A second process that runs fetch_statement on the same cache folder.    *)
(* Nothing in lines 110-190 takes a lock: each process checks, fetches and *)
(* writes on its own, and the folder is all they share.                    *)

RivalPath == CsvPath(rargs.market, rargs.table_type, rargs.date)

\* lines 104-112 in the second process, with valid arguments
RivalCall ==
    /\ rpc = "idle"
    /\ \E market \in Markets, table_type \in {"is", "bs"}, retry \in 0..MaxRetry :
         rargs' = [market |-> market, table_type |-> table_type, retry |-> retry,
                   sleep_time |-> DEFAULT_SLEEP_TIME, date |-> day]
    /\ rpc' = "cache"
    /\ UNCHANGED <<day, cache, origin, fetchVars, calls, loadVars, restVars,
                   rattempt, rgets, rfound, rwrites, rresult>>

\* lines 114-139 in the second process
RivalCacheCheck ==
    /\ rpc = "cache"
    /\ IF cache[RivalPath].exists
       THEN LET c == LoadCached(rargs.market, cache[RivalPath])
            IN  /\ rfound' = c.kind
                /\ IF c.kind = "hit"
                   THEN /\ rpc' = "done"
                        /\ rresult' = [status |-> "returned", source |-> "cache", df |-> c.df]
                   ELSE /\ rpc' = "loop"
                        /\ UNCHANGED rresult
       ELSE /\ rpc' = "loop"
            /\ rfound' = "absent"
            /\ UNCHANGED rresult
    /\ UNCHANGED <<day, cache, origin, fetchVars, calls, loadVars, restVars,
                   rargs, rattempt, rgets, rwrites>>

\* lines 146-203 in the second process: an attempt that fails and backs off
RivalAttemptFails ==
    /\ rpc = "loop"
    /\ rattempt < rargs.retry
    /\ rgets' = rgets + 1
    /\ rattempt' = rattempt + 1
    /\ UNCHANGED <<day, cache, origin, fetchVars, calls, loadVars, restVars,
                   rpc, rargs, rfound, rwrites, rresult>>

\* lines 146-203 in the second process: an attempt that receives a payload
RivalAttemptPayload ==
    /\ rpc = "loop"
    /\ rattempt < rargs.retry
    /\ rgets' = rgets + 1
    /\ \E payload \in Payloads :
         LET b == BuildFrame(rargs.market, payload)
         IN  IF b.ok
             THEN /\ cache' = [cache EXCEPT ![RivalPath] = Save(cache[RivalPath], b.df)]
                  /\ origin' = [origin EXCEPT ![RivalPath] =
                                  [by |-> "rival", market |-> rargs.market,
                                   table_type |-> rargs.table_type, day |-> day]]
                  /\ rwrites' = rwrites \cup {RivalPath}
                  /\ rresult' = [status |-> "returned", source |-> "remote", df |-> b.df]
                  /\ rpc' = "done"
                  /\ UNCHANGED rattempt
             ELSE /\ rattempt' = rattempt + 1
                  /\ UNCHANGED <<cache, origin, rwrites, rresult, rpc>>
    /\ UNCHANGED <<day, fetchVars, calls, loadVars, restVars, rargs, rfound>>

\* lines 205-208 in the second process
RivalExhausted ==
    /\ rpc = "loop"
    /\ rattempt >= rargs.retry
    /\ rpc' = "done"
    /\ rresult' = [NoResult EXCEPT !.status = "RuntimeError"]
    /\ UNCHANGED <<day, cache, origin, fetchVars, calls, loadVars, restVars,
                   rargs, rattempt, rgets, rfound, rwrites>>

----------------------------------------------------------------------------
(* modules/data_loader.py: fetch_statement(year, season, table, retry), the *)
(* HTML-sourced function the JSON one replaced.                            *)

URLS == {"is", "bs"}

LEGACY_SLEEP == 2

Years == {2023, 2024}
Seasons == {1, 4}

\* responses of the AJAX endpoint: the Content-Type says html or not; lxml
\* and bs4 are the numbers of tables each parser finds in the text, and a
\* parser never finds a table in a page that is not markup.  A page with the
\* "blocked" notice is a short notice: it holds at most one table.
Responses ==
    { r \in [html : BOOLEAN, lxml : 0..2, bs4 : 0..2, blocked : BOOLEAN] :
        /\ ~r.html => (r.lxml = 0 /\ r.bs4 = 0 /\ ~r.blocked)
        /\ r.blocked => (r.lxml <= 1 /\ r.bs4 <= 1) }

\* pd.read_html(text) with the default flavor: lxml, and bs4 with html5lib
\* only if lxml raised (found no table); ValueError if both found none
ReadHtml(page) ==
    IF page.lxml > 0 THEN [ok |-> TRUE, tried |-> <<"lxml">>, tables |-> page.lxml]
    ELSE [ok |-> page.bs4 > 0, tried |-> <<"lxml", "bs4">>, tables |-> page.bs4]

\* a file name that leaves the season out
LegacyPathNoSeason(table, year, season) == <<table, "_", ToString(year), ".csv">>

\* line 26: RAW_DIR / f"{table}_{year}_{season}.csv", as the pieces of the
\* f-string in order
LegacyPath(table, year, season) ==
    <<table, "_", ToString(year), "_", ToString(season), ".csv">>

LegacyKey == LegacyPath(legacy.table, legacy.year, legacy.season)

\* the file at a path of RAW_DIR: what it holds and the call that wrote it
LegacyFile(path) == CHOOSE f \in legacy.files : f.path = path

LegacyExists(path) == \E f \in legacy.files : f.path = path

\* lines 24-28: the assertion, then the file of (table, year, season)
LegacyCall ==
    /\ legacy.pc \in {"idle", "done"}
    /\ legacy.calls < MaxCalls
    /\ \E year \in Years, season \in Seasons, table \in URLS \cup {"invalid"},
          retry \in 0..MaxRetry :
         LET entered == [NoLegacy EXCEPT !.table = table, !.year = year, !.season = season,
                                         !.retry = retry, !.files = legacy.files,
                                         !.calls = legacy.calls + 1]
         IN  legacy' =
               IF table \notin URLS
               THEN [entered EXCEPT !.pc = "done", !.status = "AssertionError"]
               ELSE IF LegacyExists(LegacyPath(table, year, season))
               THEN [entered EXCEPT !.pc = "done", !.status = "returned", !.source = "cache",
                                    !.tables = LegacyFile(LegacyPath(table, year, season)).tables]
               ELSE [entered EXCEPT !.pc = "loop"]
    /\ UNCHANGED <<day, cache, origin, fetchVars, calls, loadVars, rivalVars, registry, roe, appVars>>

\* line 31: requests.post raises (timeout, connection); nothing catches it
LegacyPostRaises ==
    /\ legacy.pc = "loop"
    /\ legacy.i < legacy.retry
    /\ legacy' = [legacy EXCEPT !.posts = @ + 1, !.page = NoPage, !.parsers = <<>>,
                                !.last = "raised", !.pc = "done",
                                !.status = "RequestException"]
    /\ UNCHANGED <<day, cache, origin, fetchVars, calls, loadVars, rivalVars, registry, roe, appVars>>

\* lines 30-43: one iteration of the loop on a response
LegacyAttempt ==
    /\ legacy.pc = "loop"
    /\ legacy.i < legacy.retry
    /\ \E page \in Responses :
         LET got == [legacy EXCEPT !.posts = @ + 1, !.page = page, !.parsers = <<>>]
             r   == ReadHtml(page)
         IN  legacy' =
               IF ~page.html
               THEN [got EXCEPT !.last = "failed", !.slept = @ + LEGACY_SLEEP, !.i = @ + 1]
               ELSE IF ~r.ok
               THEN [got EXCEPT !.parsers = r.tried, !.last = "raised", !.pc = "done",
                                !.status = "ValueError"]
               ELSE IF r.tables < 2
               THEN [got EXCEPT !.parsers = r.tried, !.last = "failed",
                                !.slept = @ + LEGACY_SLEEP, !.i = @ + 1]
               ELSE [got EXCEPT !.parsers = r.tried, !.last = "ok", !.pc = "done",
                                !.status = "returned", !.source = "remote",
                                !.tables = r.tables - 1,
                                !.files = {f \in @ : f.path # LegacyKey}
                                          \cup {[path |-> LegacyKey, tables |-> r.tables - 1,
                                                  table |-> legacy.table,
                                                  year |-> legacy.year,
                                                  season |-> legacy.season]}]
    /\ UNCHANGED <<day, cache, origin, fetchVars, calls, loadVars, rivalVars, registry, roe, appVars>>

\* line 44: the loop ran out
LegacyExhausted ==
    /\ legacy.pc = "loop"
    /\ legacy.i >= legacy.retry
    /\ legacy' = [legacy EXCEPT !.pc = "done", !.status = "RuntimeError"]
    /\ UNCHANGED <<day, cache, origin, fetchVars, calls, loadVars, rivalVars, registry, roe, appVars>>

----------------------------------------------------------------------------
(* finance_analyzer/analysis/indicators.py: FinancialIndicators.calculate_roe. *)
(* A float is NaN, inf or a number; a number is kept in hundredths once it  *)
(* has been rounded to 2 decimals.                                          *)

MaxPeriods == 3

\* the labels of lines 36 and 37: total equity and net income (loss)
EQUITY == "equity"
NET_INCOME == "net_income"

EquityValues == {0, 600, 660}
IncomeValues == {0, 60, 66}

NaN == [k |-> "nan", v |-> 0]
Inf == [k |-> "inf", v |-> 0]

\* n / d rounded to an integer, a tie going to the even neighbour (n >= 0, d > 0)
RoundDiv(n, d) ==
    LET q == n \div d
        r == n % d
    IN  IF 2 * r > d THEN q + 1
        ELSE IF 2 * r = d THEN q + (q % 2)
        ELSE q

\* (num / den * 100).round(2) on float64 operands, in hundredths: a division by
\* zero raises nothing, it yields inf, or NaN for 0 / 0
PercentRounded(num, den) ==
    IF den = 0 THEN (IF num = 0 THEN NaN ELSE Inf)
    ELSE [k |-> "num", v |-> RoundDiv(num * 100 * 100, den)]

\* tables the caller may pass: an empty DataFrame() without any column, or a
\* table with the column and one value per period
BalanceSheets ==
    {[columns |-> {}, equity |-> <<>>]}
    \cup UNION { {[columns |-> {EQUITY}, equity |-> e] : e \in [1..n -> EquityValues]}
                 : n \in 0..MaxPeriods }

IncomeStatements(n) ==
    {[columns |-> {}, net_income |-> <<>>]}
    \cup {[columns |-> {NET_INCOME}, net_income |-> v] : v \in [1..n -> IncomeValues]}

\* line 41: equity.rolling(2).mean() is NaN for the first period and the mean
\* of the period and the one before it afterwards, so the quotient is
\* net_income[i] * 2 / (equity[i-1] + equity[i])
RoeSeries(equity, net_income) ==
    [i \in 1..Len(equity) |->
        IF i = 1 THEN NaN
        ELSE PercentRounded(net_income[i] * 2, equity[i - 1] + equity[i])]

\* lines 36-43: the two column lookups, then the series
calculate_roe(balance_sheet, income_statement) ==
    IF EQUITY \notin balance_sheet.columns \/ NET_INCOME \notin income_statement.columns
    THEN [status |-> "KeyError", values |-> <<>>]
    ELSE [status |-> "returned",
          values |-> RoeSeries(balance_sheet.equity, income_statement.net_income)]

\* the call of calculate_roe, on tables of the same periods
CalculateRoe ==
    /\ ~roe.called
    /\ \E balance_sheet \in BalanceSheets :
       \E income_statement \in IncomeStatements(Len(balance_sheet.equity)) :
         LET r == calculate_roe(balance_sheet, income_statement)
         IN  roe' = [called |-> TRUE, balance_sheet |-> balance_sheet,
                     income_statement |-> income_statement,
                     status |-> r.status, values |-> r.values]
    /\ UNCHANGED <<day, cache, origin, fetchVars, calls, loadVars, rivalVars, registry, legacy, appVars>>

----------------------------------------------------------------------------
(* finance_analyzer/config.py: the methods of AppConfig *)

MaxOps == 3

\* the files a caller may name: none at that path, text that is not JSON,
\* bytes that are not UTF-8, the JSON text [1], and three JSON objects:
\* {"api": {"timeout": 45}}, {"api": 5} and {"extra": {"k": 45}}
NoObject == [section \in {} |-> Scalar(0)]

ConfigFiles ==
    [path \in {"missing.json", "broken.json", "binary.json", "list.json",
               "timeout.json", "flat.json", "extra.json"} |->
        CASE path = "missing.json" -> [kind |-> "missing", object |-> NoObject]
          [] path = "broken.json" -> [kind |-> "invalid", object |-> NoObject]
          [] path = "binary.json" -> [kind |-> "undecodable", object |-> NoObject]
          [] path = "list.json" -> [kind |-> "array", object |-> NoObject]
          [] path = "timeout.json" ->
                [kind |-> "object",
                 object |-> [section \in {"api"} |->
                                DictValue([k \in {"timeout"} |-> 45])]]
          [] path = "flat.json" ->
                [kind |-> "object", object |-> [section \in {"api"} |-> Scalar(5)]]
          [] path = "extra.json" ->
                [kind |-> "object",
                 object |-> [section \in {"extra"} |-> DictValue([k \in {"k"} |-> 45])]]]

ConfigPaths == DOMAIN ConfigFiles

\* the arguments of get and set
ConfigSections == {"api", "display", "extra"}
ConfigKeys == {"timeout", "k"}
ConfigValues == {30, 45}
ConfigDefaults == {ReturnedNone, ReturnedInt(0)}

\* d[key] = value
Put(d, key, value) == [k \in DOMAIN d \cup {key} |-> IF k = key THEN value ELSE d[k]]

\* lines 106-110 on two dicts of settings: every key of new_config is assigned
UpdateDict(base, new) ==
    [k \in DOMAIN base \cup DOMAIN new |-> IF k \in DOMAIN new THEN new[k] ELSE base[k]]

\* line 107: the key is in base_config and both values are dicts
Recurses(config, new_config, key) ==
    /\ key \in DOMAIN config
    /\ config[key].kind \in {"default", "dict"}
    /\ new_config[key].kind = "dict"

\* lines 95-110 on self.config: a section that is a dict on both sides is
\* updated in place, the dict of DEFAULT_CONFIG included when self.config
\* still holds it; any other key is assigned the loaded value
_update_config_recursively(defaults, config, new_config) ==
    [defaults |->
        [section \in DOMAIN defaults |->
            IF /\ section \in DOMAIN new_config
               /\ Recurses(config, new_config, section)
               /\ config[section].kind = "default"
            THEN UpdateDict(defaults[section], new_config[section].dict)
            ELSE defaults[section]],
     config |->
        [section \in DOMAIN config \cup DOMAIN new_config |->
            IF section \notin DOMAIN new_config THEN config[section]
            ELSE IF Recurses(config, new_config, section)
            THEN IF config[section].kind = "default" THEN config[section]
                 ELSE DictValue(UpdateDict(config[section].dict, new_config[section].dict))
            ELSE new_config[section]]]

\* lines 84-93: open() raises an IOError for a missing file, json.load a
\* UnicodeDecodeError for bytes that are not UTF-8 and a JSONDecodeError for
\* text that is not JSON; line 106 raises an AttributeError for a JSON value
\* without items().  Only IOError and JSONDecodeError are caught.
load_from_file(defaults, config, config_path) ==
    LET file == ConfigFiles[config_path]
        same == [defaults |-> defaults, config |-> config]
    IN  CASE file.kind = "missing" ->
                [state |-> same, returned |-> ReturnedBool(FALSE), raised |-> "none"]
          [] file.kind = "invalid" ->
                [state |-> same, returned |-> ReturnedBool(FALSE), raised |-> "none"]
          [] file.kind = "undecodable" ->
                [state |-> same, returned |-> ReturnedNone, raised |-> "UnicodeDecodeError"]
          [] file.kind = "array" ->
                [state |-> same, returned |-> ReturnedNone, raised |-> "AttributeError"]
          [] file.kind = "object" ->
                [state |-> _update_config_recursively(defaults, config, file.object),
                 returned |-> ReturnedBool(TRUE), raised |-> "none"]

\* lines 156-159: a missing section or key is a KeyError, which is caught; a
\* section that is not a dict raises a TypeError, which is not
get(defaults, config, section, key, default) ==
    IF section \notin DOMAIN config
    THEN [returned |-> default, raised |-> "none"]
    ELSE IF config[section].kind = "value"
    THEN [returned |-> ReturnedNone, raised |-> "TypeError"]
    ELSE LET d == Contents(defaults, config)[section].dict
         IN  IF key \in DOMAIN d
             THEN [returned |-> ReturnedInt(d[key]), raised |-> "none"]
             ELSE [returned |-> default, raised |-> "none"]

\* lines 174-177: the section is created when missing, then its dict is
\* written, the dict of DEFAULT_CONFIG when self.config still holds it; a
\* section that is not a dict raises a TypeError
set(defaults, config, section, key, value) ==
    LET created ==
            [s \in DOMAIN config \cup {section} |->
                IF s \in DOMAIN config THEN config[s] ELSE DictValue(EmptyDict)]
    IN  CASE created[section].kind = "value" ->
                [state |-> [defaults |-> defaults, config |-> created],
                 raised |-> "TypeError"]
          [] created[section].kind = "default" ->
                [state |-> [defaults |-> [defaults EXCEPT ![section] = Put(@, key, value)],
                            config |-> created],
                 raised |-> "none"]
          [] created[section].kind = "dict" ->
                [state |-> [defaults |-> defaults,
                            config |-> [created EXCEPT
                                           ![section] = DictValue(Put(@.dict, key, value))]],
                 raised |-> "none"]

ConfigUnchanged ==
    UNCHANGED <<day, cache, origin, fetchVars, calls, loadVars, rivalVars, registry, legacy,
                roe, dashboard, trend>>

\* a call of load_from_file on the instance
ConfigLoad ==
    /\ appconfig.ops < MaxOps
    /\ \E config_path \in ConfigPaths :
         LET r == load_from_file(appconfig.defaults, appconfig.config, config_path)
         IN  appconfig' =
                [defaults |-> r.state.defaults, config |-> r.state.config, op |-> "load",
                 section |-> "", key |-> "", value |-> ReturnedNone, file |-> config_path,
                 returned |-> r.returned, raised |-> r.raised,
                 before |-> Contents(appconfig.defaults, appconfig.config),
                 ops |-> appconfig.ops + 1]
    /\ ConfigUnchanged

\* a call of set on the instance
ConfigSet ==
    /\ appconfig.ops < MaxOps
    /\ \E section \in ConfigSections, key \in ConfigKeys, value \in ConfigValues :
         LET r == set(appconfig.defaults, appconfig.config, section, key, value)
         IN  appconfig' =
                [defaults |-> r.state.defaults, config |-> r.state.config, op |-> "set",
                 section |-> section, key |-> key, value |-> ReturnedInt(value),
                 file |-> "", returned |-> ReturnedNone, raised |-> r.raised,
                 before |-> Contents(appconfig.defaults, appconfig.config),
                 ops |-> appconfig.ops + 1]
    /\ ConfigUnchanged

\* a call of get on the instance
ConfigGet ==
    /\ appconfig.ops < MaxOps
    /\ \E section \in ConfigSections, key \in ConfigKeys, default \in ConfigDefaults :
         LET r == get(appconfig.defaults, appconfig.config, section, key, default)
         IN  appconfig' =
                [appconfig EXCEPT !.op = "get", !.section = section, !.key = key,
                                  !.value = default, !.file = "",
                                  !.returned = r.returned, !.raised = r.raised,
                                  !.before = Contents(appconfig.defaults, appconfig.config),
                                  !.ops = appconfig.ops + 1]
    /\ ConfigUnchanged

\* lines 57-62 with no config_path: AppConfig() builds a new instance, which
\* replaces the one the model follows
ConfigNew ==
    /\ appconfig.ops < MaxOps
    /\ appconfig' =
          [appconfig EXCEPT !.config = ShallowCopy(appconfig.defaults), !.op = "new",
                            !.section = "", !.key = "", !.value = ReturnedNone,
                            !.file = "", !.returned = ReturnedNone, !.raised = "none",
                            !.before = Contents(appconfig.defaults, appconfig.config),
                            !.ops = appconfig.ops + 1]
    /\ ConfigUnchanged

----------------------------------------------------------------------------
(* app/app.py: FinancialData, ChartGenerator and FinancialAnalysisApp.run.  *)
(* A year is the text of its number, a value is kept in hundredths.  The    *)
(* companies are named "85C" (85 degrees C), "WaCheng", "WangPin",          *)
(* "MeiShiDaRen" and "LiuJiao" after the names of the source.               *)

\* int(year) of a text of digits
RECURSIVE IntOf(_)
IntOf(s) == IF Len(s) = 0 THEN 0 ELSE 10 * IntOf(SubSeq(s, 1, Len(s) - 1)) + s[Len(s)]

\* a dict literal: its keys in the order written and their values
YearDict(keys, values) ==
    [year \in {keys[i] : i \in 1..Len(keys)} |->
        values[CHOOSE i \in 1..Len(keys) : keys[i] = year]]

\* the keys "103" .. "113" of every metric dict of lines 66-180
DataYears ==
    << <<1,0,3>>, <<1,0,4>>, <<1,0,5>>, <<1,0,6>>, <<1,0,7>>, <<1,0,8>>, <<1,0,9>>,
       <<1,1,0>>, <<1,1,1>>, <<1,1,2>>, <<1,1,3>> >>

\* FinancialData.companies
companies ==
    [company_name \in {"85C", "WaCheng", "WangPin", "MeiShiDaRen", "LiuJiao"} |->
        CASE company_name = "85C" ->
            [code |-> "2723",
             revenue_growth |-> YearDict(DataYears,
                    <<850, 1020, 780, 550, 320, 210, -580, 420, 850, 620, 750>>),
             profit_margin |-> YearDict(DataYears,
                    <<980, 1050, 920, 850, 780, 650, 420, 550, 720, 810, 850>>),
             roe |-> YearDict(DataYears,
                    <<1850, 1920, 1750, 1580, 1420, 1250, 850, 1020, 1250, 1420, 1550>>),
             debt_ratio |-> YearDict(DataYears,
                    <<3520, 3650, 3820, 4050, 4280, 4520, 4850, 4620, 4450, 4280, 4050>>),
             eps |-> YearDict(DataYears,
                    <<582, 625, 578, 542, 495, 425, 285, 352, 465, 528, 585>>)]
          [] company_name = "WaCheng" ->
            [code |-> "2729",
             revenue_growth |-> YearDict(DataYears,
                    <<1580, 1850, 2020, 2250, 1850, 1250, -850, 520, 1580, 1850, 2020>>),
             profit_margin |-> YearDict(DataYears,
                    <<1250, 1320, 1450, 1520, 1450, 1280, 650, 820, 1050, 1280, 1420>>),
             roe |-> YearDict(DataYears,
                    <<2250, 2480, 2650, 2820, 2550, 2080, 1050, 1420, 1850, 2250, 2580>>),
             debt_ratio |-> YearDict(DataYears,
                    <<3050, 3280, 3550, 3820, 4050, 4280, 4550, 4320, 4050, 3820, 3550>>),
             eps |-> YearDict(DataYears,
                    <<785, 852, 925, 1015, 952, 785, 395, 525, 685, 852, 985>>)]
          [] company_name = "WangPin" ->
            [code |-> "2727",
             revenue_growth |-> YearDict(DataYears,
                    <<1250, 1080, 850, 520, 350, 280, -1250, -520, 850, 1250, 1580>>),
             profit_margin |-> YearDict(DataYears,
                    <<1050, 980, 850, 720, 650, 520, 250, 380, 650, 820, 950>>),
             roe |-> YearDict(DataYears,
                    <<2050, 1820, 1650, 1420, 1250, 1020, 550, 780, 1250, 1620, 1850>>),
             debt_ratio |-> YearDict(DataYears,
                    <<3250, 3520, 3850, 4020, 4250, 4580, 4850, 4620, 4350, 4020, 3850>>),
             eps |-> YearDict(DataYears,
                    <<652, 585, 525, 452, 395, 325, 152, 225, 385, 525, 615>>)]
          [] company_name = "MeiShiDaRen" ->
            [code |-> "1259",
             revenue_growth |-> YearDict(DataYears,
                    <<2250, 2580, 2850, 3020, 2550, 2080, -250, 850, 1520, 1850, 2250>>),
             profit_margin |-> YearDict(DataYears,
                    <<850, 920, 1050, 1120, 1050, 920, 550, 720, 850, 980, 1050>>),
             roe |-> YearDict(DataYears,
                    <<1850, 2020, 2250, 2480, 2250, 1850, 1020, 1450, 1680, 1950, 2280>>),
             debt_ratio |-> YearDict(DataYears,
                    <<4050, 4280, 4550, 4820, 5050, 5280, 5550, 5220, 4850, 4520, 4250>>),
             eps |-> YearDict(DataYears,
                    <<425, 485, 552, 625, 585, 495, 285, 395, 465, 545, 625>>)]
          [] company_name = "LiuJiao" ->
            [code |-> "2732",
             revenue_growth |-> YearDict(DataYears,
                    <<1850, 2020, 2250, 2480, 2050, 1520, -550, 380, 1050, 1520, 1850>>),
             profit_margin |-> YearDict(DataYears,
                    <<1150, 1280, 1450, 1580, 1450, 1220, 650, 850, 1020, 1250, 1420>>),
             roe |-> YearDict(DataYears,
                    <<2150, 2380, 2650, 2880, 2550, 2020, 1050, 1480, 1850, 2220, 2550>>),
             debt_ratio |-> YearDict(DataYears,
                    <<3550, 3820, 4050, 4280, 4550, 4820, 5050, 4820, 4550, 4280, 4050>>),
             eps |-> YearDict(DataYears,
                    <<585, 652, 725, 815, 752, 625, 325, 452, 585, 725, 852>>)]]

\* get_company_names(): the keys of companies, in their order
CompanyNames == <<"85C", "WaCheng", "WangPin", "MeiShiDaRen", "LiuJiao">>

\* the keys of FinancialData.metric_names, and the list of line 475
metrics == <<"revenue_growth", "profit_margin", "roe", "debt_ratio", "eps">>

\* FinancialData.years
years ==
    << <<1,0,3>>, <<1,0,4>>, <<1,0,5>>, <<1,0,6>>, <<1,0,7>>, <<1,0,8>>, <<1,0,9>>,
       <<1,1,0>>, <<1,1,1>>, <<1,1,2>>, <<1,1,3>> >>

\* the choices of the radio button of lines 527-531
YearsRanges == {5, 10}

\* a slice that keeps the whole list
WholeList(list, n) == list

\* list[-n:]
LastYears(list, n) ==
    IF Len(list) <= n THEN list ELSE SubSeq(list, Len(list) - n + 1, Len(list))

\* lines 407-410 and 568-571: years[-5:] for 5, years[-10:] otherwise
available_years(years_range) ==
    IF years_range = 5 THEN LastYears(years, 5) ELSE LastYears(years, 10)

Elements(list) == {list[i] : i \in 1..Len(list)}

\* lines 405-412, and the read of every selected year at line 438
get_data_for_years(company_name, metric, years_range) ==
    LET selected_years == Elements(available_years(years_range))
    IN  IF selected_years \subseteq DOMAIN companies[company_name][metric]
        THEN [status |-> "returned",
              data |-> [year \in selected_years |-> companies[company_name][metric][year]]]
        ELSE [status |-> "KeyError", data |-> <<>>]

Abs(x) == IF x < 0 THEN -x ELSE x

\* round(abs(change / prev_value * 100), 2) in hundredths, 0 for a previous
\* value of 0; when the exact quotient lies halfway between two hundredths
\* the float64 quotient may fall on either side of it
ChangePercent(change, prev_value, tie) ==
    IF prev_value = 0 THEN 0
    ELSE LET n == Abs(change) * 100 * 100
             d == Abs(prev_value)
             q == n \div d
             r == n % d
         IN  IF 2 * r > d THEN q + 1
             ELSE IF 2 * r = d THEN (IF tie = "up" THEN q + 1 ELSE q)
             ELSE q

\* lines 479-501: one row of the table; a lower debt ratio is the positive one
ComparisonRow(metric, current_value, prev_value, tie) ==
    LET change == current_value - prev_value
        good == IF metric = "debt_ratio" THEN change < 0 ELSE change > 0
    IN  [metric |-> metric, prev_value |-> prev_value, current_value |-> current_value,
         change |-> Abs(change),
         change_percent |-> ChangePercent(change, prev_value, tie),
         change_direction |->
            IF metric = "debt_ratio" THEN (IF change < 0 THEN "down" ELSE "up")
            ELSE (IF change > 0 THEN "up" ELSE "down"),
         change_class |-> IF good THEN "positive" ELSE "negative"]

\* lines 472-503: prev_year is str(int(year) - 1); both years are read from
\* every metric dict, a missing key being a KeyError
generate_comparison_table(company_name, year, tie) ==
    LET prev_year == NatText(IntOf(year) - 1)
        data == companies[company_name]
    IN  IF \E i \in 1..Len(metrics) :
              \/ year \notin DOMAIN data[metrics[i]]
              \/ prev_year \notin DOMAIN data[metrics[i]]
        THEN [status |-> "KeyError", prev_year |-> prev_year, rows |-> <<>>]
        ELSE [status |-> "returned", prev_year |-> prev_year,
              rows |-> [i \in 1..Len(metrics) |->
                          ComparisonRow(metrics[i], data[metrics[i]][year],
                                        data[metrics[i]][prev_year], tie)]]

DashboardUnchanged ==
    UNCHANGED <<day, cache, origin, fetchVars, calls, loadVars, rivalVars, registry, legacy,
                roe, appconfig, trend>>

\* lines 512-676, one run of the script with the widgets in any position: the
\* warning for an empty selection, the line chart, then the table of the
\* chosen company and year
DashboardRun ==
    /\ dashboard.pc = "idle"
    /\ \E selected_companies \in SUBSET Elements(CompanyNames),
          years_range \in YearsRanges,
          selected_metric \in Elements(metrics) :
         LET widgets == [NoDashboard EXCEPT !.pc = "done",
                                            !.selected_companies = selected_companies,
                                            !.years_range = years_range,
                                            !.selected_metric = selected_metric]
         IN  IF selected_companies = {}
             THEN dashboard' = [widgets EXCEPT !.status = "warning"]
             ELSE IF \E company_name \in selected_companies :
                        get_data_for_years(company_name, selected_metric, years_range).status
                            = "KeyError"
             THEN dashboard' = [widgets EXCEPT !.status = "KeyError"]
             ELSE \E company_for_detail \in selected_companies,
                     selected_year \in Elements(available_years(years_range)),
                     tie \in {"down", "up"} :
                    LET table == generate_comparison_table(company_for_detail,
                                                           selected_year, tie)
                    IN  dashboard' =
                           [widgets EXCEPT !.company_for_detail = company_for_detail,
                                           !.selected_year = selected_year,
                                           !.prev_year = table.prev_year,
                                           !.status = table.status,
                                           !.rows = table.rows]
    /\ DashboardUnchanged

----------------------------------------------------------------------------
(* finance_analyzer/analysis/insights.py: _determine_overall_trend.  The    *)
(* four summaries it returns are named by what they say.                    *)

key_indicators == <<"ROE", "Profit Margin", "Revenue Growth">>

INSUFFICIENT == "insufficient data"
SIGNIFICANT == "significantly improved"
SOMEWHAT == "somewhat improved"
DECLINING == "majority declining"

\* the indicator dicts a caller may pass: any of the three key indicators and
\* of "Debt Ratio", each with a value
IndicatorNames == {"ROE", "Profit Margin", "Revenue Growth", "Debt Ratio"}
IndicatorValues == {1, 2}
IndicatorDicts == UNION {[present -> IndicatorValues] : present \in SUBSET IndicatorNames}

\* a comparison that takes an unchanged value for an improvement
NotLower(current_value, previous_value) == current_value >= previous_value

\* line 244: current[indicator] > previous[indicator]
Improves(current_value, previous_value) == current_value > previous_value

\* lines 241-245: the loop over key_indicators from position i on, counting
\* the indicators present in both dicts and those that improved
RECURSIVE CountIndicators(_, _, _, _)
CountIndicators(i, current, previous, counts) ==
    IF i > Len(key_indicators) THEN counts
    ELSE LET indicator == key_indicators[i]
             both == indicator \in DOMAIN current /\ indicator \in DOMAIN previous
         IN  CountIndicators(i + 1, current, previous,
                [total_indicators |-> counts.total_indicators + (IF both THEN 1 ELSE 0),
                 improvements |->
                    counts.improvements
                        + (IF both /\ Improves(current[indicator], previous[indicator])
                           THEN 1 ELSE 0)])

\* improvements / total_indicators > tenths / 10: the quotients of at most
\* three indicators are 0, 1/3, 1/2, 2/3 and 1, none of them within a
\* rounding error of 0.3 or 0.7
RatioAbove(improvements, total_indicators, tenths) ==
    10 * improvements > tenths * total_indicators

\* lines 236-258
_determine_overall_trend(current, previous) ==
    LET counts == CountIndicators(1, current, previous,
                                  [total_indicators |-> 0, improvements |-> 0])
    IN  IF counts.total_indicators = 0 THEN INSUFFICIENT
        ELSE IF RatioAbove(counts.improvements, counts.total_indicators, 7) THEN SIGNIFICANT
        ELSE IF RatioAbove(counts.improvements, counts.total_indicators, 3) THEN SOMEWHAT
        ELSE DECLINING

\* a call of _determine_overall_trend
DetermineTrend ==
    /\ ~trend.called
    /\ \E current \in IndicatorDicts, previous \in IndicatorDicts :
         trend' = [called |-> TRUE, current |-> current, previous |-> previous,
                   message |-> _determine_overall_trend(current, previous)]
    /\ UNCHANGED <<day, cache, origin, fetchVars, calls, loadVars, rivalVars, registry, legacy,
                   roe, appconfig, dashboard>>

----------------------------------------------------------------------------
(* Specifications *)

Next == Call \/ CacheCheck \/ AttemptFails \/ AttemptPayload \/ Exhausted \/ Tick \/ Seed

Spec == Init /\ [][Next]_vars

\* one call of fetch_statement, on any day, with any of the files above in
\* the cache folder
FirstCall == calls = 0 /\ Call

CallNext ==
    FirstCall \/ CacheCheck \/ AttemptFails \/ AttemptPayload \/ Exhausted \/ Tick \/ Seed

CallSpec == Init /\ [][CallNext]_vars

\* a step of the body of fetch_statement
RunStep == CacheCheck \/ AttemptFails \/ AttemptPayload \/ Exhausted

\* one call, on the first day, that its thread keeps executing: the file read,
\* every GET (bounded by timeout=30) and every sleep return
FairCallNext == FirstCall \/ RunStep \/ Seed

FairCallSpec == Init /\ [][FairCallNext]_vars /\ WF_vars(RunStep)

\* two processes, one call each, on one day and an empty cache folder, their
\* steps interleaved in any order
RaceNext ==
    \/ FirstCall \/ CacheCheck \/ AttemptFails \/ AttemptPayload \/ Exhausted
    \/ RivalCall \/ RivalCacheCheck \/ RivalAttemptFails \/ RivalAttemptPayload
    \/ RivalExhausted

RaceSpec == Init /\ [][RaceNext]_vars

\* calls of the HTML-sourced fetch_statement
LegacyNext == LegacyCall \/ LegacyPostRaises \/ LegacyAttempt \/ LegacyExhausted

LegacySpec == Init /\ [][LegacyNext]_vars

\* calls of calculate_roe
IndicatorNext == CalculateRoe

IndicatorSpec == Init /\ [][IndicatorNext]_vars

\* the program driven through DataLoader.load_company_data
LoaderNext ==
    \/ LoadCompany \/ AfterIncome \/ AfterBalance
    \/ CacheCheck \/ AttemptFails \/ AttemptPayload \/ Exhausted \/ Tick

LoaderSpec == Init /\ [][LoaderNext]_vars

----------------------------------------------------------------------------
(* Properties *)

RECURSIVE SumSeq(_)
SumSeq(q) == IF Len(q) = 0 THEN 0 ELSE q[1] + SumSeq(Tail(q))

NoSeed == \A p \in Paths : origin[p].by # "seed"

SameKeyAsPrev ==
    /\ prev.market = args.market
    /\ prev.table_type = args.table_type
    /\ prev.date = args.date

\* C1: of two calls made on the same day with the same valid key, from an
\* empty cache and with the first one succeeding, at most one remote GET is
\* issued in total and the second call returns, from the cache file, a table
\* identical to the first call's (index values and type, columns, values).
C1_SecondCallIdentical ==
    ( /\ pc = "done"
      /\ calls = 2
      /\ NoSeed
      /\ SameKeyAsPrev
      /\ prev.result.status = "returned"
      /\ prev.result.source = "remote" )
    => /\ prev.gets + gets <= 1
       /\ result.status = "returned"
       /\ result.source = "cache"
       /\ result.df = prev.result.df

\* C2: with no cache entry for today's key and every request answered with a
\* non-200 status, the k-th failed attempt is followed by a sleep of
\* base_delay * k, and the call ends with RuntimeError after exactly
\* retry_count requests and a total sleep of base_delay * (1 + ... + retry_count).
C2_AlwaysNon200 ==
    ( /\ pc \in {"loop", "done"}
      /\ found = "absent"
      /\ outcome # "ok"
      /\ non200 = attempt )
    => /\ gets = attempt
       /\ Len(sleeps) = attempt
       /\ \A k \in 1..Len(sleeps) : sleeps[k] = args.sleep_time * k
       /\ pc = "done" =>
            /\ result.status = "RuntimeError"
            /\ gets = args.retry
            /\ SumSeq(sleeps) = args.sleep_time * ((args.retry * (args.retry + 1)) \div 2)

C2_Witness ==
    /\ pc = "done"
    /\ found = "absent"
    /\ result.status = "RuntimeError"
    /\ args.retry = 2
    /\ args.sleep_time = 2
    /\ non200 = 2
    /\ sleeps = <<2, 4>>

\* C3: an attempt that ends in a transport exception, a non-200 status, an
\* empty payload or an unparsable payload is followed by a sleep of
\* base_delay * attempt_number and, while attempts are left, by the next
\* attempt; a call whose attempts all failed ends with RuntimeError, never
\* with a returned value.
C3_TransientFailuresRetry ==
    ( pc \in {"loop", "done"} /\ outcome \in FailureKinds )
    => /\ attempt >= 1
       /\ Len(sleeps) = attempt
       /\ sleeps[attempt] = args.sleep_time * attempt
       /\ attempt < args.retry => (pc = "loop" /\ result.status = "none")
       /\ pc = "done" =>
            /\ attempt = args.retry
            /\ gets = args.retry
            /\ result = [NoResult EXCEPT !.status = "RuntimeError"]

C3_Witness ==
    /\ pc = "done"
    /\ outcome = "unparsable"
    /\ attempt = 2
    /\ sleeps = <<1, 2>>
    /\ result.status = "RuntimeError"

\* C4: a call with a market outside {twse, tpex} or a table_type outside
\* {is, bs} ends with ValueError without a remote request, a cache read, a
\* cache write or a sleep, whatever the cache holds.
C4_InvalidArgsRaiseFirst ==
    ( /\ pc # "idle"
      /\ ~(args.market \in {"twse", "tpex"} /\ args.table_type \in {"is", "bs"}) )
    => /\ pc = "done"
       /\ result = [NoResult EXCEPT !.status = "ValueError"]
       /\ gets = 0
       /\ reads = {}
       /\ writes = {}
       /\ sleeps = <<>>
       /\ found = "none"

C4_Witness ==
    /\ result.status = "ValueError"
    /\ args.market = "twse"
    /\ args.table_type = "invalid"
    /\ args.retry = 2
    /\ cache[<<"twse", "is", args.date>>].exists

\* C5: every table a call returns, built from the response or loaded from the
\* cache file, for either market, has only string entries in its index.
C5_IndexAllStrings ==
    result.status = "returned"
    => \A i \in 1..Len(result.df.index) : result.df.index[i].t = "str"

\* C6: the cache entry a call has just written, read back through the cache
\* branch, yields a table equal to the one written (index, columns, values).
C6_CacheRoundTrip ==
    ( pc = "done" /\ result.source = "remote" )
    => LoadCached(args.market, cache[MyPath]) = [kind |-> "hit", df |-> result.df]

\* C7: a call reads a cache entry only if the entry was written on the day of
\* the call for the same market and table_type, and no two of
\* (market, table_type, day) share a cache entry.
C7_CacheFreshness ==
    /\ \A p \in reads :
         /\ origin[p].market = args.market
         /\ origin[p].table_type = args.table_type
         /\ origin[p].day = args.date
    /\ \A m1 \in Markets, m2 \in Markets, t1 \in {"is", "bs"}, t2 \in {"is", "bs"},
          d1 \in Days, d2 \in Days :
            CsvPath(m1, t1, d1) = CsvPath(m2, t2, d2) => <<m1, t1, d1>> = <<m2, t2, d2>>

C7_Witness ==
    /\ args.date = 2
    /\ pc = "loop"
    /\ found = "absent"
    /\ reads = {}
    /\ cache[<<args.market, args.table_type, 1>>] = EarlierRunFile(args.market)

\* C8: a call that finds a cache file with data rows for today's key returns
\* a non-empty table whose index contains the cached company codes, and
\* issues no remote request.
C8_CacheFileServes ==
    ( /\ pc \in {"loop", "done"}
      /\ MyPath \in reads
      /\ writes = {}
      /\ Len(cache[MyPath].rows) > 0 )
    => /\ pc = "done"
       /\ gets = 0
       /\ result.status = "returned"
       /\ result.source = "cache"
       /\ ~IsEmpty(result.df)
       /\ \A r \in 1..Len(cache[MyPath].rows) : InIndex(cache[MyPath].rows[r][1], result.df)

HoldsCompany(code, df) == \E i \in 1..Len(df.index) : df.index[i].v = code

\* C10: load_company_data returns None, without a fetch_statement call, for
\* a code that is not in the registry, and returns the combined record (income
\* fields, balance fields, fetch_time, market) for a registry code that both
\* fetched tables hold.
C10_LoadCompanyData ==
    lpc = "done"
    => IF Len(company) = 0 \/ ~InRegistry(company)
       THEN lresult.status = "None" /\ fetches = 0
       ELSE ( /\ fetches = 2
              /\ result.status = "returned"
              /\ HoldsCompany(company, is_df)
              /\ HoldsCompany(company, result.df) )
            => /\ lresult.status = "record"
               /\ lresult.code = company
               /\ lresult.columns = is_df.columns \o result.df.columns
                                      \o <<"fetch_time", "market">>
               /\ lresult.market = Upper(CompanyInfo(company).market)

HasKey(payload, key) == \E k \in 1..Len(payload.keys) : payload.keys[k] = key

Field(payload, i, key) ==
    payload.rows[i][CHOOSE k \in 1..Len(payload.keys) : payload.keys[k] = key]

\* C11: for either market, an attempt answered with status 200 and a
\* non-empty list of records that each carry "Code" and "PEratio" makes
\* fetch_statement return a table with exactly one row per record, whose
\* index holds every record's code and whose columns include PEratio.
C11_CodeRecordsReturnTable ==
    ( /\ pc \in {"loop", "done"}
      /\ Len(received.rows) > 0
      /\ HasKey(received, "Code")
      /\ HasKey(received, "PEratio") )
    => /\ pc = "done"
       /\ result.status = "returned"
       /\ result.source = "remote"
       /\ Len(result.df.index) = Len(received.rows)
       /\ \A i \in 1..Len(received.rows) :
            \E j \in 1..Len(result.df.index) :
               result.df.index[j] = Field(received, i, "Code")
       /\ HasColumn(result.df, "PEratio")

\* the tpex field names that column_mapping replaces by another name
TpexNames ==
    {"SecuritiesCompanyCode", "CompanyName", "PriceEarningRatio", "DividendPerShare",
     "PriceBookRatio"}

\* C12: for market tpex, no table that fetch_statement returns (built from a
\* response or read from the cache) and no cache file it writes shows one of
\* the tpex field names as a column name or as the name of the index.
C12_TpexNamesHidden ==
    (pc = "done" /\ args.market = "tpex" /\ result.status = "returned")
    => /\ result.df.idxname \notin TpexNames
       /\ \A k \in 1..Len(result.df.columns) : result.df.columns[k] \notin TpexNames
       /\ \A p \in writes :
            \A k \in 1..Len(cache[p].header) : cache[p].header[k] \notin TpexNames

\* a step of a fetch_statement call: its entry or a step of its body
CallStep == pc \in {"cache", "loop"} \/ calls' = calls + 1

TodaysPath == <<args'.market, args'.table_type, day'>>

\* C13: the step on which a call returns a table built from a response has
\* written the cache entry of (market, table_type, today) with that table and
\* no other entry; every other step of a call, so every step of a call that
\* ends in ValueError or RuntimeError, leaves all cache entries as they were.
C13_CacheWriteEffect ==
    [][ CallStep =>
          IF pc' = "done" /\ result'.status = "returned" /\ result'.source = "remote"
          THEN /\ cache'[TodaysPath] = ToCsv(result'.df)
               /\ \A p \in Paths : p # TodaysPath => cache'[p] = cache[p]
               /\ writes' = {TodaysPath}
          ELSE /\ cache' = cache
               /\ (pc' = "done" /\ result'.status \in {"ValueError", "RuntimeError"})
                    => writes' = {} ]_vars

C13_Witness ==
    /\ pc = "done"
    /\ result.status = "returned"
    /\ result.source = "remote"
    /\ writes = {MyPath}
    /\ cache[MyPath] = ToCsv(result.df)
    /\ \E p \in Paths : p # MyPath /\ cache[p].exists

\* C14: over the calls of a run, a cache entry changes only on the step on
\* which a remote fetch for its key succeeds, and only if the program has not
\* written that entry before; no entry is ever deleted; an entry the program
\* has written is never written again, and every later call for its key on
\* that day returns from it without a remote request.
C14_CacheEntryLifecycle ==
    [][ \A p \in Paths :
          /\ cache[p].exists => cache'[p].exists
          /\ (cache'[p] # cache[p] /\ origin'[p].by # "seed")
               => /\ pc = "loop" /\ pc' = "done"
                  /\ result'.status = "returned" /\ result'.source = "remote"
                  /\ p = MyPath
                  /\ origin[p].by # "fetch"
          /\ origin[p].by = "fetch" => cache'[p] = cache[p]
          /\ (pc = "cache" /\ p = MyPath /\ origin[p].by = "fetch")
               => /\ pc' = "done"
                  /\ result'.status = "returned" /\ result'.source = "cache"
                  /\ gets' = 0 ]_vars

C14_Witness ==
    /\ calls = 2
    /\ pc = "done"
    /\ origin[MyPath].by = "fetch"
    /\ origin[MyPath].day = day
    /\ writes = {}
    /\ result.status = "returned"
    /\ result.source = "cache"

\* C15: a call that has started always ends; it never issues more GETs than
\* retry_count; a call that entered the retry loop ends either returning the
\* table of the attempt that succeeded, all attempts before it having failed,
\* or raising RuntimeError after retry_count failed attempts; a call that has
\* ended issues no further GET.
C15_CallTerminates ==
    /\ [](gets <= args.retry)
    /\ []((pc = "done" /\ found \in {"absent", "empty", "error"})
            => \/ /\ result.status = "returned" /\ result.source = "remote"
                  /\ outcome = "ok"
                  /\ gets = attempt + 1
                  /\ Len(sleeps) = attempt
               \/ /\ result.status = "RuntimeError"
                  /\ outcome # "ok"
                  /\ attempt = args.retry
                  /\ gets = args.retry
                  /\ Len(sleeps) = args.retry)
    /\ [][(pc = "done" /\ calls' = calls) => gets' = gets]_vars
    /\ (pc \in {"cache", "loop"} ~> pc = "done")

C15_Witness ==
    /\ pc = "done"
    /\ result.status = "RuntimeError"
    /\ args.retry = MaxRetry
    /\ gets = MaxRetry

SameFile == pc # "idle" /\ rpc # "idle" /\ ValidArgs(args.market, args.table_type)
            /\ RivalPath = MyPath

\* the table of the process that saved the file last
LastSaved == IF origin[MyPath].by = "rival" THEN rresult.df ELSE result.df

\* C16: no process waits for the other: a process at its cache check can take
\* it while the other is in the middle of a call for the same file.  When two
\* processes called for the same (market, table_type) on the same day, both
\* found the entry absent and both returned, then each of them issued a GET of
\* its own, each wrote the one cache file, and the file holds the table of
\* whichever saved last.
C16_UnlockedCacheRace ==
    /\ (pc = "cache" /\ rpc \in {"cache", "loop"} /\ RivalPath = MyPath)
         => ENABLED CacheCheck
    /\ (rpc = "cache" /\ pc \in {"cache", "loop"} /\ RivalPath = MyPath)
         => ENABLED RivalCacheCheck
    /\ ( /\ SameFile
         /\ pc = "done" /\ rpc = "done"
         /\ found = "absent" /\ rfound = "absent"
         /\ result.status = "returned" /\ rresult.status = "returned" )
       => /\ result.source = "remote" /\ rresult.source = "remote"
          /\ gets >= 1 /\ rgets >= 1
          /\ writes = {MyPath} /\ rwrites = {MyPath}
          /\ cache[MyPath] = ToCsv(LastSaved)

\* both found the entry absent, both fetched, both wrote the same file
C16_Witness ==
    /\ SameFile
    /\ pc = "done" /\ rpc = "done"
    /\ found = "absent" /\ rfound = "absent"
    /\ gets >= 1 /\ rgets >= 1
    /\ writes = {MyPath} /\ rwrites = {MyPath}
    /\ result.df # rresult.df

\* the restaurant company codes that test_fetch_restaurant_companies lists
RestaurantCodes ==
    { <<2,7,2,7>>, <<2,7,2,9>>, <<2,7,5,3>>, <<1,2,5,9>>, <<1,2,6,8>>, <<7,7,0,8>>,
      <<7,7,0,5>>, <<2,7,5,2>>, <<4,4,1,9>>, <<2,7,2,3>>, <<2,7,3,2>> }

\* C17: at every moment of a run of the loader the registry is the one the
\* class was defined with, and it holds each of the eleven restaurant company
\* codes 2727, 2729, 2753, 1259, 1268, 7708, 7705, 2752, 4419, 2723 and 2732.
C17_RegistryHoldsAllCodes ==
    /\ registry = COMPANIES
    /\ \A code \in RestaurantCodes : InRegistry(code)

\* C18: in the HTML-sourced fetch_statement, an attempt on an HTML page is
\* declared failed only after both table parsers were tried on the page, and
\* an attempt whose page holds the "blocked" notice is counted as a failed
\* attempt that the loop follows with a retry, not as the end of the call.
C18_LegacyParsingFallback ==
    /\ (legacy.page.html /\ legacy.last = "failed")
         => legacy.parsers = <<"lxml", "bs4">>
    /\ legacy.page.blocked
         => /\ legacy.last = "failed"
            /\ legacy.status \notin {"ValueError", "returned"}

\* C19: calculate_roe returns, for every period i of its inputs, the first
\* included, net_income[i] / equity[i] * 100 rounded to 2 decimals.
C19_RoeElementwise ==
    (roe.called /\ roe.status = "returned")
    => /\ Len(roe.values) = Len(roe.balance_sheet.equity)
       /\ \A i \in 1..Len(roe.values) :
            roe.values[i] = PercentRounded(roe.income_statement.net_income[i],
                                           roe.balance_sheet.equity[i])

\* C20: calculate_roe raises KeyError when a required column is missing and
\* raises ZeroDivisionError when the total equity of any period is zero.
C20_RoeDegenerateInputsRaise ==
    roe.called
    => IF EQUITY \notin roe.balance_sheet.columns
          \/ NET_INCOME \notin roe.income_statement.columns
       THEN roe.status = "KeyError"
       ELSE (\E i \in 1..Len(roe.balance_sheet.equity) : roe.balance_sheet.equity[i] = 0)
              => roe.status = "ZeroDivisionError"

\* C21: the HTML-sourced fetch_statement keeps one file per (table, year,
\* season): a call that finds the file of its triple returns what the file
\* holds without a request; the file a call returns was written for the very
\* triple of the call; and a file is written only by the attempt that parsed
\* a page into at least two tables.
C21_LegacyCacheEntry ==
    /\ [](\A f \in legacy.files :
            /\ f.path = LegacyPath(f.table, f.year, f.season)
            /\ \A g \in legacy.files : g.path = f.path => g = f)
    /\ []((legacy.pc = "done" /\ legacy.source = "cache")
            => /\ legacy.posts = 0
               /\ legacy.status = "returned"
               /\ \E f \in legacy.files :
                    /\ f.table = legacy.table /\ f.year = legacy.year
                    /\ f.season = legacy.season
                    /\ legacy.tables = f.tables)
    /\ [][legacy'.files # legacy.files
            => /\ legacy.pc = "loop" /\ legacy'.pc = "done"
               /\ legacy'.status = "returned" /\ legacy'.source = "remote"
               /\ legacy'.last = "ok"
               /\ ReadHtml(legacy'.page).ok /\ ReadHtml(legacy'.page).tables >= 2
               /\ ~LegacyExists(LegacyKey)
               /\ legacy'.files = legacy.files
                    \cup {[path |-> LegacyKey, tables |-> legacy'.tables,
                           table |-> legacy.table, year |-> legacy.year,
                           season |-> legacy.season]}]_vars

\* a second call for a triple returns from the file the first call wrote
C21_Witness ==
    /\ legacy.calls = 2
    /\ legacy.pc = "done"
    /\ legacy.source = "cache"
    /\ legacy.posts = 0
    /\ legacy.tables >= 1
    /\ LegacyExists(LegacyKey)

\* C22: the HTML-sourced fetch_statement ends a call for a known table
\* without a returned table only by RuntimeError, after `retry` requests that
\* each failed (transport failure, non-HTML response or fewer than two tables)
\* and were each followed by a wait; a call for an unknown table fails at once
\* without a request.
C22_LegacyRetriesEveryFailure ==
    legacy.pc = "done"
    => IF legacy.table \notin URLS
       THEN legacy.status = "AssertionError" /\ legacy.posts = 0
       ELSE legacy.status # "returned"
            => /\ legacy.status = "RuntimeError"
               /\ legacy.posts = legacy.retry
               /\ legacy.slept = LEGACY_SLEEP * legacy.retry

\* C23: load_company_data returns a record only when the company's code is
\* in the index of both fetched tables, and the record holds the company's
\* row of each; when exactly one of the two tables holds the code the result
\* is None.
C23_NoPartialRecord ==
    lpc = "done"
    => /\ lresult.status = "record"
          => /\ fetches = 2
             /\ InIndex(company, is_df) /\ InIndex(company, result.df)
             /\ lresult.income = is_df.data[RowOf(company, is_df)]
             /\ lresult.balance = result.df.data[RowOf(company, result.df)]
       /\ ( /\ fetches = 2
            /\ result.status = "returned"
            /\ HoldsCompany(company, is_df) # HoldsCompany(company, result.df) )
          => lresult = ReturnsNone

\* the income table holds the company, the balance table does not
C23_Witness ==
    /\ lpc = "done"
    /\ fetches = 2
    /\ result.status = "returned"
    /\ InIndex(company, is_df)
    /\ ~HoldsCompany(company, result.df)
    /\ lresult = ReturnsNone

\* C24: load_company_data ends with None or a record, never with an
\* exception; when fetch_statement raises for the income statement the
\* balance sheet is not fetched and the result is None; when it raises for
\* the balance sheet the result is None.
C24_LoadNeverRaises ==
    /\ [](lpc = "done"
            => /\ lresult.status \in {"None", "record"}
               /\ (fetches >= 1 /\ result.status # "returned") => lresult = ReturnsNone
               /\ lresult.status = "record" => result.status = "returned")
    /\ [][(lpc = "is" /\ pc = "done" /\ result.status # "returned")
            => /\ lpc' = "done"
               /\ lresult' = ReturnsNone
               /\ fetches' = 1
               /\ gets' = gets /\ args' = args /\ pc' = pc]_vars
    /\ [][(lpc = "bs" /\ pc = "done" /\ result.status # "returned")
            => /\ lpc' = "done"
               /\ lresult' = ReturnsNone]_vars

\* the income statement fetch raised and the load ended after that one fetch
C24_Witness ==
    /\ lpc = "done"
    /\ fetches = 1
    /\ args.table_type = "is"
    /\ result.status = "RuntimeError"
    /\ lresult = ReturnsNone

\* the load has ended after both of its fetches returned
BothFetched == lpc = "done" /\ fetches = 2 /\ result.status = "returned"

\* the requests of the load: those of its income fetch and of its balance fetch
LoadGets == prev.gets + gets

\* C25 as stated: from an empty cache, the first successful load for a
\* company of a market issues exactly two requests (income, then balance, to
\* the one endpoint of the market), and a load that finds both statements of
\* the market cached that day issues none.
C25_ExactlyTwoRequests ==
    BothFetched
    => /\ API_ENDPOINTS(args.market, "is") = API_ENDPOINTS(args.market, "bs")
       /\ ( /\ lresult.status = "record"
            /\ prev.result.source = "remote"
            /\ result.source = "remote" )
          => LoadGets = 2
       /\ (prev.result.source = "cache" /\ result.source = "cache") => LoadGets = 0

\* C25 amended: a load that fetches both statements remotely issues, for each
\* statement, one request per failed attempt and then the one that succeeds,
\* so between 2 and 2 * retry_count requests in all, to the one endpoint of
\* the market; it leaves both statements cached, and no request is ever issued
\* for a statement that the program has cached that day, so every later load
\* for the market on that day issues none.
C25_RequestsOfALoad ==
    /\ [](BothFetched
            => /\ API_ENDPOINTS(args.market, "is") = API_ENDPOINTS(args.market, "bs")
               /\ prev.table_type = "is" /\ args.table_type = "bs"
               /\ prev.market = args.market /\ prev.date = args.date
               /\ IF prev.result.source = "remote"
                  THEN prev.gets \in 1..DEFAULT_RETRY_COUNT
                  ELSE prev.gets = 0
               /\ IF result.source = "remote"
                  THEN gets \in 1..DEFAULT_RETRY_COUNT /\ gets = attempt + 1
                  ELSE gets = 0
               /\ \A t \in {"is", "bs"} :
                    /\ cache[<<args.market, t, args.date>>].exists
                    /\ origin[<<args.market, t, args.date>>].by = "fetch")
    /\ [][gets' = gets + 1 => origin[MyPath].by # "fetch"]_vars

\* a load that fetched both statements remotely and needed more than two
\* requests for it
C25_Witness ==
    /\ BothFetched
    /\ calls = 1
    /\ lresult.status = "record"
    /\ prev.result.source = "remote"
    /\ result.source = "remote"
    /\ LoadGets > 2

\* calls on an AppConfig, and constructions of new ones
ConfigNext == ConfigLoad \/ ConfigSet \/ ConfigGet \/ ConfigNew

ConfigSpec == Init /\ [][ConfigNext]_vars

\* C26: DEFAULT_CONFIG keeps its original values whatever is called on an
\* instance, and an AppConfig() built without a file starts from them
C26_DefaultsIsolated ==
    /\ appconfig.defaults = DEFAULT_CONFIG
    /\ appconfig.op = "new" =>
          Contents(appconfig.defaults, appconfig.config)
              = [section \in DOMAIN DEFAULT_CONFIG |-> DictValue(DEFAULT_CONFIG[section])]

\* C27: load_from_file returns False and changes nothing for a missing file
\* and for a file that is not valid JSON; for a JSON object it returns True,
\* overrides the keys of the file, nested sections key by key, and keeps
\* every other key and value
C27_LoadFromFile ==
    appconfig.op = "load" =>
        LET file == ConfigFiles[appconfig.file]
            now == Contents(appconfig.defaults, appconfig.config)
            before == appconfig.before
        IN  /\ file.kind \in {"missing", "invalid", "undecodable"} =>
                /\ appconfig.raised = "none"
                /\ appconfig.returned = ReturnedBool(FALSE)
                /\ now = before
            /\ file.kind = "object" =>
                /\ appconfig.raised = "none"
                /\ appconfig.returned = ReturnedBool(TRUE)
                /\ DOMAIN now = DOMAIN before \cup DOMAIN file.object
                /\ \A section \in DOMAIN now :
                      IF section \notin DOMAIN file.object THEN now[section] = before[section]
                      ELSE IF /\ section \in DOMAIN before
                              /\ before[section].kind = "dict"
                              /\ file.object[section].kind = "dict"
                      THEN now[section] =
                              DictValue(UpdateDict(before[section].dict,
                                                   file.object[section].dict))
                      ELSE now[section] = file.object[section]

\* C28: get never raises: it returns the stored value when the section and
\* the key exist and the default otherwise; after set(section, key, v), get
\* of the same section and key returns v
C28_GetAfterSet ==
    /\ appconfig.op = "get" =>
          LET before == appconfig.before
          IN  /\ appconfig.raised = "none"
              /\ appconfig.returned =
                    IF /\ appconfig.section \in DOMAIN before
                       /\ before[appconfig.section].kind = "dict"
                       /\ appconfig.key \in DOMAIN before[appconfig.section].dict
                    THEN ReturnedInt(before[appconfig.section].dict[appconfig.key])
                    ELSE appconfig.value
    /\ appconfig.op = "set" =>
          /\ appconfig.raised = "none"
          /\ get(appconfig.defaults, appconfig.config, appconfig.section, appconfig.key,
                 ReturnedNone)
                = [returned |-> appconfig.value, raised |-> "none"]

\* runs of the dashboard script
DashboardNext == DashboardRun

DashboardSpec == Init /\ [][DashboardNext]_vars

\* C29: for every company of the sample data and every year the dashboard
\* offers (the last 5 or the last 10 years), the year before it is a key of
\* all five metrics, so generate_comparison_table never meets a missing year
C29_PreviousYearExists ==
    /\ \A i \in 1..Len(CompanyNames), years_range \in YearsRanges :
       \A year \in Elements(available_years(years_range)) :
       \A j \in 1..Len(metrics) :
          NatText(IntOf(year) - 1) \in DOMAIN companies[CompanyNames[i]][metrics[j]]
    /\ (dashboard.pc = "done" /\ dashboard.company_for_detail # "") =>
          /\ dashboard.status = "returned"
          /\ Len(dashboard.rows) = 5

\* the table of the oldest year on offer, "104" against "103"
C29_Witness ==
    /\ dashboard.pc = "done"
    /\ dashboard.years_range = 10
    /\ dashboard.selected_year = <<1,0,4>>
    /\ dashboard.prev_year = <<1,0,3>>
    /\ dashboard.status = "returned"

\* calls of _determine_overall_trend
TrendNext == DetermineTrend

TrendSpec == Init /\ [][TrendNext]_vars

\* the key indicators both dicts of the last call hold, and those of them
\* whose value went up
InBoth ==
    {key_indicators[i] : i \in 1..Len(key_indicators)}
        \cap DOMAIN trend.current \cap DOMAIN trend.previous

Improved == {indicator \in InBoth : trend.current[indicator] > trend.previous[indicator]}

\* C30: the summary follows the share of the key indicators present in both
\* periods that strictly improved: insufficient data iff none is present in
\* both, majority declining iff the share is at most 0.3, significantly
\* improved iff it exceeds 0.7, somewhat improved otherwise; with all three
\* present, majority declining only when none improved
C30_TrendByImprovedShare ==
    trend.called =>
        LET n == Cardinality(InBoth)
            k == Cardinality(Improved)
        IN  /\ trend.message = INSUFFICIENT <=> n = 0
            /\ trend.message = DECLINING <=> (n > 0 /\ 10 * k <= 3 * n)
            /\ trend.message = SIGNIFICANT <=> (n > 0 /\ 10 * k > 7 * n)
            /\ trend.message = SOMEWHAT <=> (n > 0 /\ 10 * k > 3 * n /\ 10 * k <= 7 * n)
            /\ (n = 3 /\ trend.message = DECLINING) => k = 0

\* all three indicators present and exactly one of them improved: a share of
\* one third, which is above 0.3
C30_Witness ==
    /\ trend.called
    /\ Cardinality(InBoth) = 3
    /\ Cardinality(Improved) = 1
    /\ trend.message = SOMEWHAT
====
